---- MODULE Spec2Model ----
(***************************************************************************)
(* A model of the tool server of the AI release manager: the Path Guard    *)
(* and the Tool Gateway of src/src/server.py and the extractors of         *)
(* src/src/tools/parsers.py.                                               *)
(*                                                                         *)
(* Representation of Python values.  A str that names a path or an XML     *)
(* attribute is a sequence of one-character strings.  A log text is a      *)
(* run-length encoded str: a sequence of [ch, n] records, n >= 1, where    *)
(* only the filler character "z" occurs with n > 1 (so that a text of a    *)
(* million characters is a few records long).  An argument value is a      *)
(* tagged record [t |-> <type name>, v |-> <value>]; None is               *)
(* [t |-> "NoneType"].  A dict is the sequence of its [k, v] items.        *)
(* A call either returns, [ok |-> TRUE, v |-> value], or raises,           *)
(* [ok |-> FALSE, exc |-> [cls |-> <class name>, msg |-> <str(e)>]].       *)
(***************************************************************************)
EXTENDS Integers, Sequences, FiniteSets, TLC

VARIABLES
    ALLOWED_BASE_PATHS, \* server.py's module-level allow list
    fs,                 \* the files: canonical path -> content
    req,                \* the request being answered: [name, arguments]
    resp,               \* what call_tool did with it: returned blocks or raised
    log,                \* the calls call_tool made while answering, in order
    probe,              \* an earlier request and its response, fs unchanged since
    input,              \* the input of the extractor under study
    output,             \* its result
    pc                  \* "ready" before the extractor ran, "done" after

vars == <<ALLOWED_BASE_PATHS, fs, req, resp, log, probe, input, output, pc>>

(***************************************************************************)
(* Python values                                                           *)
(***************************************************************************)
None == [t |-> "NoneType"]

PyStr(s) == [t |-> "str", v |-> s]

PyInt(n) == [t |-> "int", v |-> n]

PyDict(items) == [t |-> "dict", v |-> items]

Return(v) == [ok |-> TRUE, v |-> v]

Raise(cls, fmt, arg) == [ok |-> FALSE, exc |-> [cls |-> cls, msg |-> [fmt |-> fmt, arg |-> arg]]]

\* bool(x): None, "", 0 and the empty dict are falsy.
Truthy(x) ==
    CASE x.t = "NoneType" -> FALSE
      [] x.t = "str" -> Len(x.v) > 0
      [] x.t = "text" -> Len(x.v) > 0
      [] x.t = "int" -> x.v # 0
      [] x.t = "dict" -> Len(x.v) > 0
      [] OTHER -> TRUE

\* The exception classes the program meets, each with its base class.
ExcBase ==
    [ FileNotFoundError |-> "OSError", PermissionError |-> "OSError",
      IsADirectoryError |-> "OSError", OSError |-> "Exception",
      UnicodeDecodeError |-> "ValueError", ValueError |-> "Exception",
      ParseError |-> "SyntaxError", SyntaxError |-> "Exception",
      TypeError |-> "Exception", AttributeError |-> "Exception",
      Exception |-> "BaseException", BaseException |-> "object" ]

RECURSIVE IsInstance(_, _)
\* isinstance(e, base), which is what an except clause tests.
IsInstance(cls, base) ==
    IF cls = base THEN TRUE
    ELSE IF cls \notin DOMAIN ExcBase THEN FALSE
    ELSE IsInstance(ExcBase[cls], base)

(***************************************************************************)
(* str operations                                                          *)
(***************************************************************************)
\* s.startswith(p)
startswith(s, p) == Len(p) <= Len(s) /\ SubSeq(s, 1, Len(p)) = p

RECURSIVE split(_, _)
\* s.split(sep) for a one-character sep
split(s, sep) ==
    IF \A i \in 1..Len(s) : s[i] # sep THEN <<s>>
    ELSE LET i == CHOOSE k \in 1..Len(s) :
                      s[k] = sep /\ \A j \in 1..(k - 1) : s[j] # sep
         IN <<SubSeq(s, 1, i - 1)>> \o split(SubSeq(s, i + 1, Len(s)), sep)

(***************************************************************************)
(* The process environment and pathlib                                     *)
(***************************************************************************)
\* os.getcwd(): the directory the server was started in, "/w".
getcwd == <<"/", "w">>

\* os.path.expanduser("~"): the caller's home directory, "/h".
expanduser == <<"/", "h">>

\* os.path.join(a, b)
join(a, b) == IF Len(b) > 0 /\ b[1] = "/" THEN b ELSE a \o <<"/">> \o b

\* The directory name "artifacts", written "art" here.
artifacts == <<"a", "r", "t">>

\* The symbolic links of the file system, as segment lists: /w/l -> /e.
SymLinks == { [from |-> << <<"w">>, <<"l">> >>, to |-> << <<"e">> >>] }

\* The path after following a symbolic link that it names, if it names one.
FollowLink(segs) ==
    IF \E l \in SymLinks : l.from = segs
    THEN (CHOOSE l \in SymLinks : l.from = segs).to
    ELSE segs

RECURSIVE Walk(_, _)
\* os.path.realpath's walk: `done` is resolved, `rest` are the components left.
Walk(done, rest) ==
    IF rest = <<>> THEN done
    ELSE LET c == Head(rest) IN
         IF c = <<>> \/ c = <<".">> THEN Walk(done, Tail(rest))
         ELSE IF c = <<".", ".">>
              THEN Walk(IF done = <<>> THEN done ELSE SubSeq(done, 1, Len(done) - 1),
                        Tail(rest))
              ELSE Walk(FollowLink(Append(done, c)), Tail(rest))

RECURSIVE PathStr(_)
\* str() of an absolute path given by its segments
PathStr(segs) ==
    IF segs = <<>> THEN <<"/">>
    ELSE IF Len(segs) = 1 THEN <<"/">> \o segs[1]
    ELSE PathStr(SubSeq(segs, 1, Len(segs) - 1)) \o <<"/">> \o segs[Len(segs)]

\* str(Path(p).resolve()): absolute, "." and ".." removed, links followed.
\* A path holding a NUL character cannot be resolved: ValueError.
resolve(p) ==
    IF \E i \in 1..Len(p) : p[i] = "NUL"
    THEN Raise("ValueError", "embedded null byte", <<>>)
    ELSE LET abs == IF Len(p) > 0 /\ p[1] = "/" THEN p ELSE join(getcwd, p)
         IN Return(PathStr(Walk(<<>>, split(abs, "/"))))

\* Path(x): only a str (or a path-like) makes a Path.
Path(x) ==
    IF x.t = "str" THEN resolve(x.v)
    ELSE Raise("TypeError", "expected str, bytes or os.PathLike object", <<>>)

\* What is_path_safe makes of Path(file_path).resolve(): the exceptions of
\* its except clause are answered False, another exception passes through.
GuardResolved(abs_path) ==
    IF ~abs_path.ok
    THEN IF IsInstance(abs_path.exc.cls, "ValueError") \/ IsInstance(abs_path.exc.cls, "OSError")
         THEN Return(FALSE)
         ELSE abs_path
    ELSE Return(\E i \in 1..Len(ALLOWED_BASE_PATHS) :
                    startswith(abs_path.v, resolve(ALLOWED_BASE_PATHS[i]).v))

\* is_path_safe(file_path): True, False, or the exception it lets through.
is_path_safe(file_path) == GuardResolved(Path(file_path))

(***************************************************************************)
(* int() and float()                                                       *)
(***************************************************************************)
Digits == <<"0", "1", "2", "3", "4", "5", "6", "7", "8", "9">>

IsDigit(c) == \E d \in 1..Len(Digits) : Digits[d] = c

DigitVal(c) == (CHOOSE d \in 1..Len(Digits) : Digits[d] = c) - 1

RECURSIVE strip(_)
\* s.strip() for the blank " "
strip(s) ==
    IF Len(s) > 0 /\ s[1] = " " THEN strip(Tail(s))
    ELSE IF Len(s) > 0 /\ s[Len(s)] = " " THEN strip(SubSeq(s, 1, Len(s) - 1))
    ELSE s

RECURSIVE DecVal(_)
\* the number a string of decimal digits writes
DecVal(s) == IF s = <<>> THEN 0 ELSE 10 * DecVal(SubSeq(s, 1, Len(s) - 1)) + DigitVal(s[Len(s)])

AllDigits(s) == \A i \in 1..Len(s) : IsDigit(s[i])

\* int(x): an int is returned as it is; a str must be blanks, an optional
\* sign and at least one decimal digit, or int() raises ValueError.
int(x) ==
    IF x.t = "int" THEN Return(x.v)
    ELSE LET s == strip(x.v)
             signed == Len(s) > 0 /\ (s[1] = "-" \/ s[1] = "+")
             d == IF signed THEN Tail(s) ELSE s
         IN IF Len(d) > 0 /\ AllDigits(d)
            THEN Return(IF signed /\ s[1] = "-" THEN 0 - DecVal(d) ELSE DecVal(d))
            ELSE Raise("ValueError", "invalid literal for int() with base 10: {}", x.v)

\* A float is kept in hundredths: [t |-> "float", c |-> 150] is 1.5.
PyFloat(c) == [t |-> "float", c |-> c]

\* float(x): a float is returned as it is; a str must be blanks, an optional
\* sign, digits and at most one "." with a digit on one side of it (at most
\* two digits after it are kept), or float() raises ValueError.
float(x) ==
    IF x.t = "float" THEN Return(x)
    ELSE LET s == strip(x.v)
             signed == Len(s) > 0 /\ (s[1] = "-" \/ s[1] = "+")
             d == IF signed THEN Tail(s) ELSE s
             parts == split(d, ".")
             whole == parts[1]
             frac == IF Len(parts) = 2 THEN parts[2] ELSE <<>>
             cents == IF Len(frac) = 0 THEN 0
                      ELSE IF Len(frac) = 1 THEN 10 * DecVal(frac)
                      ELSE DecVal(SubSeq(frac, 1, 2))
             mag == 100 * DecVal(whole) + cents
         IN IF Len(parts) <= 2 /\ AllDigits(whole) /\ AllDigits(frac)
               /\ Len(whole) + Len(frac) > 0
            THEN Return(PyFloat(IF signed /\ s[1] = "-" THEN 0 - mag ELSE mag))
            ELSE Raise("ValueError", "could not convert string to float: {}", x.v)

(***************************************************************************)
(* xml.etree.ElementTree                                                   *)
(***************************************************************************)
\* An element: [tag, attrib, children]; attrib is the sequence of its
\* [k, v] items, children the sequence of its child elements.
Element(tag, attrib, children) == [tag |-> tag, attrib |-> attrib, children |-> children]

\* d.get(key, default) of a dict or of an element's attributes
get(items, key, default) ==
    IF \E i \in 1..Len(items) : items[i].k = key
    THEN items[CHOOSE i \in 1..Len(items) : items[i].k = key].v
    ELSE default

\* elem.get(key, default): an attribute's value is a str
ElemGet(elem, key, default) ==
    IF \E i \in 1..Len(elem.attrib) : elem.attrib[i].k = key
    THEN PyStr(get(elem.attrib, key, <<>>))
    ELSE default

\* elem.findall(tag): the direct children with that tag, in document order
findall(elem, tag) == SelectSeq(elem.children, LAMBDA c : c.tag = tag)

\* elem.find(tag) is not None
found(elem, tag) == \E i \in 1..Len(elem.children) : elem.children[i].tag = tag

(***************************************************************************)
(* The file system                                                         *)
(***************************************************************************)
\* What fs holds for a path with no file.
NoFile == [kind |-> "absent"]

\* A directory.
Directory == [kind |-> "dir"]

\* A regular file: what ET.parse reads from it (its root element, or
\* NotXml when it is not well-formed XML) and its text decoded as UTF-8.
NotXml == Element("#malformed", <<>>, <<>>)

File(root, text) == [kind |-> "file", root |-> root, text |-> text]

\* The content at a resolved path.
Content(resolved) ==
    IF resolved.ok /\ resolved.v \in DOMAIN fs THEN fs[resolved.v] ELSE NoFile

\* The content at a path as given to open() or os.path.exists(): the
\* operating system resolves the path the way resolve does.
Lookup(path) == Content(resolve(path))

\* os.path.exists(path)
exists(path) == Lookup(path).kind # "absent"

\* What ET.parse makes of the content f at path.
ParseContent(path, f) ==
    IF f.kind = "absent"
    THEN Raise("FileNotFoundError", "[Errno 2] No such file or directory: {}", path)
    ELSE IF f.kind = "dir"
    THEN Raise("IsADirectoryError", "[Errno 21] Is a directory: {}", path)
    ELSE IF f.root = NotXml
    THEN Raise("ParseError", "syntax error: line 1, column 0", <<>>)
    ELSE Return(f.root)

\* ET.parse(path).getroot(): the root element, or the exception raised.
ETparse(path) == ParseContent(path, Lookup(path))

\* open(path, 'r', encoding='utf-8').read(): the text, or the exception.
\* A file whose bytes are not UTF-8 has the text Undecodable.
Undecodable == <<"#undecodable">>

\* What reading the content f at path as UTF-8 text gives.
DecodeContent(path, f) ==
    IF f.kind = "absent"
    THEN Raise("FileNotFoundError", "[Errno 2] No such file or directory: {}", path)
    ELSE IF f.kind = "dir"
    THEN Raise("IsADirectoryError", "[Errno 21] Is a directory: {}", path)
    ELSE IF f.text = Undecodable
    THEN Raise("UnicodeDecodeError", "'utf-8' codec can't decode byte", <<>>)
    ELSE Return(f.text)

ReadText(path) == DecodeContent(path, Lookup(path))

(***************************************************************************)
(* parsers.py: the test report and the coverage report                     *)
(***************************************************************************)
TestSummary(total, failures, errors, skipped, time, failed_tests) ==
    [ total |-> total, failures |-> failures, errors |-> errors, skipped |-> skipped,
      time |-> time, failed_test_names |-> failed_tests ]

CoverageSummary(line_rate) ==
    [ line_rate |-> line_rate, total_lines |-> 0, covered_lines |-> 0 ]

\* The entries process_suite appends for the test cases of a suite.
FailedCases(suite) ==
    LET cases == SelectSeq(findall(suite, "testcase"),
                           LAMBDA case : found(case, "failure") \/ found(case, "error"))
    IN [ i \in 1..Len(cases) |->
           ElemGet(cases[i], "classname", PyStr(<<>>)).v \o <<":", ":">>
             \o ElemGet(cases[i], "name", PyStr(<<"u", "n", "k", "n", "o", "w", "n">>)).v ]

\* The mutant of AddSuite that takes an attribute it cannot read as 0.
AddSuiteLenient(acc, suite, n) ==
    LET val(i) == IF n[i].ok THEN n[i].v ELSE IF i = 5 THEN PyFloat(0) ELSE 0
    IN Return(TestSummary(acc.total + val(1), acc.failures + val(2), acc.errors + val(3),
                          acc.skipped + val(4), PyFloat(acc.time.c + val(5).c),
                          acc.failed_test_names \o FailedCases(suite)))

\* The mutant of AddSuite that overwrites the counts instead of adding.
AddSuiteOverwrite(acc, suite, n) ==
    IF \E i \in 1..Len(n) : ~n[i].ok
    THEN n[CHOOSE i \in 1..Len(n) : ~n[i].ok /\ \A j \in 1..(i - 1) : n[j].ok]
    ELSE Return(TestSummary(n[1].v, n[2].v, n[3].v, n[4].v, n[5].v,
                            acc.failed_test_names \o FailedCases(suite)))

\* The body of process_suite once the five attributes are converted: n holds
\* what int() gave for tests, failures, errors, skipped and float() for
\* time.  The first conversion that raised ends it; otherwise the totals
\* grow and the failed test cases are appended.
AddSuite(acc, suite, n) ==
    IF \E i \in 1..Len(n) : ~n[i].ok
    THEN n[CHOOSE i \in 1..Len(n) : ~n[i].ok /\ \A j \in 1..(i - 1) : n[j].ok]
    ELSE Return(TestSummary(acc.total + n[1].v, acc.failures + n[2].v, acc.errors + n[3].v,
                            acc.skipped + n[4].v, PyFloat(acc.time.c + n[5].v.c),
                            acc.failed_test_names \o FailedCases(suite)))

\* process_suite(suite) on the running totals acc: the new totals, or the
\* exception raised.  An attribute is a str, the default of a missing one
\* the number 0 (0.0 for time).
process_suite(acc, suite) ==
    AddSuite(acc, suite,
             << int(ElemGet(suite, "tests", PyInt(0))), int(ElemGet(suite, "failures", PyInt(0))),
                int(ElemGet(suite, "errors", PyInt(0))), int(ElemGet(suite, "skipped", PyInt(0))),
                float(ElemGet(suite, "time", PyFloat(0))) >>)

\* process_suite over the suites in order, stopping at the first exception
\* (r is what the suites before gave).
RECURSIVE ProcessSuites(_, _)
ProcessSuites(r, suites) ==
    IF ~r.ok \/ suites = <<>> THEN r
    ELSE ProcessSuites(process_suite(r.v, Head(suites)), Tail(suites))

\* The suites parse_junit_xml processes for a root element.
SuitesOf(root) ==
    IF root.tag = "testsuites" THEN findall(root, "testsuite")
    ELSE IF root.tag = "testsuite" THEN <<root>>
    ELSE <<>>

\* parse_junit_xml once the file exists: root is what ET.parse gave.
JunitOfRoot(file_path, root) ==
    IF ~root.ok
    THEN IF IsInstance(root.exc.cls, "ParseError")
         THEN Raise("ValueError", "Invalid XML format in {}", file_path)
         ELSE root
    ELSE ProcessSuites(Return(TestSummary(0, 0, 0, 0, PyFloat(0), <<>>)), SuitesOf(root.v))

\* parse_junit_xml(file_path): the TestSummary, or the exception raised.
parse_junit_xml(file_path) ==
    IF ~exists(file_path)
    THEN Raise("FileNotFoundError", "Test result file not found: {}", file_path)
    ELSE JunitOfRoot(file_path, ETparse(file_path))

\* CoverageSummary(line_rate=rate, ...), or the exception float() raised.
CoverageOfRate(rate) == IF rate.ok THEN Return(CoverageSummary(rate.v)) ELSE rate

\* parse_cobertura_xml once the file exists: root is what ET.parse gave.
CoverageOfRoot(file_path, root) ==
    IF ~root.ok
    THEN IF IsInstance(root.exc.cls, "ParseError")
         THEN Raise("ValueError", "Invalid Cobertura XML format in {}", file_path)
         ELSE root
    ELSE CoverageOfRate(float(ElemGet(root.v, "line-rate", PyFloat(0))))

\* parse_cobertura_xml(file_path): the CoverageSummary, or the exception.
parse_cobertura_xml(file_path) ==
    IF ~exists(file_path)
    THEN Raise("FileNotFoundError", "Coverage file not found: {}", file_path)
    ELSE CoverageOfRoot(file_path, ETparse(file_path))

(***************************************************************************)
(* parsers.py: the security configuration                                  *)
(***************************************************************************)
SecurityConfig(face_threshold, liveness_min_frames) ==
    [ face_threshold |-> face_threshold, liveness_min_frames |-> liveness_min_frames ]

face_detection_threshold ==
    << "f", "a", "c", "e", "_", "d", "e", "t", "e", "c", "t", "i", "o", "n", "_",
       "t", "h", "r", "e", "s", "h", "o", "l", "d" >>

liveness_min_valid_frames ==
    << "l", "i", "v", "e", "n", "e", "s", "s", "_", "m", "i", "n", "_",
       "v", "a", "l", "i", "d", "_", "f", "r", "a", "m", "e", "s" >>

\* \s
IsSpace(c) == c \in {" ", "\n", "\t", "\r"}

RECURSIVE SkipSpace(_, _)
\* the first position at or after i that \s* can stop at
SkipSpace(text, i) ==
    IF i <= Len(text) /\ IsSpace(text[i]) THEN SkipSpace(text, i + 1) ELSE i

\* the last position of the longest run of characters of class from i on
RunEnd(text, i, class) ==
    CHOOSE j \in (i - 1)..Len(text) :
        /\ \A k \in i..j : text[k] \in class
        /\ j = Len(text) \/ text[j + 1] \notin class

\* [0-9], and [0-9.]
DigitClass == { Digits[d] : d \in 1..Len(Digits) }

NumberClass == DigitClass \cup {"."}

\* re.search(name .* = \s* (class+), text): group(1) of the leftmost match,
\* its .* as long as it can be, or None.  `.` matches all but a line break.
search(name, class, text) ==
    LET MatchAt(i) ==  \* the positions of "=" that end a match starting at i
            { e \in (i + Len(name))..Len(text) :
                /\ SubSeq(text, i, i + Len(name) - 1) = name
                /\ \A j \in (i + Len(name))..(e - 1) : text[j] # "\n"
                /\ text[e] = "="
                /\ LET g == SkipSpace(text, e + 1)
                   IN g <= Len(text) /\ text[g] \in class }
        starts == { i \in 1..Len(text) : MatchAt(i) # {} }
    IN IF starts = {} THEN None
       ELSE LET i == CHOOSE a \in starts : \A b \in starts : a <= b
                e == CHOOSE a \in MatchAt(i) : \A b \in MatchAt(i) : a >= b
                g == SkipSpace(text, e + 1)
            IN PyStr(SubSeq(text, g, RunEnd(text, g, class)))

\* float(match.group(1)) if match else None, and the same with int()
FloatOrNone(match) == IF match = None THEN Return(None) ELSE float(match)

IntOfResult(n) == IF n.ok THEN Return(PyInt(n.v)) ELSE n

IntOrNone(match) == IF match = None THEN Return(None) ELSE IntOfResult(int(match))

\* SecurityConfig(face_threshold=face, liveness_min_frames=live), or the
\* exception that float() or int() raised.
ConfigOf(face, live) ==
    IF ~face.ok THEN face
    ELSE IF ~live.ok THEN live
    ELSE Return(SecurityConfig(face.v, live.v))

\* read_security_config once the file exists: content is what read() gave.
ConfigOfContent(content) ==
    IF ~content.ok THEN content
    ELSE ConfigOf(FloatOrNone(search(face_detection_threshold, NumberClass, content.v)),
                  IntOrNone(search(liveness_min_valid_frames, DigitClass, content.v)))

\* read_security_config(config_path): the SecurityConfig, or the exception.
read_security_config(config_path) ==
    IF ~exists(config_path) THEN Return(SecurityConfig(None, None))
    ELSE ConfigOfContent(ReadText(config_path))

(***************************************************************************)
(* parsers.py: the log analyzer                                            *)
(***************************************************************************)
LogAnalysis(error_count, warning_count, critical_errors, warnings) ==
    [ error_count |-> error_count, warning_count |-> warning_count,
      critical_errors |-> critical_errors, warnings |-> warnings ]

\* A log text: [t |-> "text", v |-> runs].
PyText(runs) == [t |-> "text", v |-> runs]

\* One character of a log text, and a run of n filler characters.
Ch(c) == [ch |-> c, n |-> 1]

Fill(n) == [ch |-> "z", n |-> n]

RECURSIVE len(_)
\* len(text)
len(runs) == IF runs = <<>> THEN 0 ELSE Head(runs).n + len(Tail(runs))

RECURSIVE SplitRuns(_)
\* the pieces of a text between its line breaks
SplitRuns(runs) ==
    IF \A i \in 1..Len(runs) : runs[i].ch # "\n" THEN <<runs>>
    ELSE LET i == CHOOSE k \in 1..Len(runs) :
                      runs[k].ch = "\n" /\ \A j \in 1..(k - 1) : runs[j].ch # "\n"
         IN <<SubSeq(runs, 1, i - 1)>> \o SplitRuns(SubSeq(runs, i + 1, Len(runs)))

\* text.splitlines(): the lines without their line breaks; a line break at
\* the end of the text starts no further line, and "" has no line.
splitlines(runs) ==
    LET pieces == SplitRuns(runs)
    IN IF pieces[Len(pieces)] = <<>> THEN SubSeq(pieces, 1, Len(pieces) - 1) ELSE pieces

Upper == << "A", "B", "C", "D", "E", "F", "G", "H", "I", "J", "K", "L", "M",
            "N", "O", "P", "Q", "R", "S", "T", "U", "V", "W", "X", "Y", "Z" >>

Lower == << "a", "b", "c", "d", "e", "f", "g", "h", "i", "j", "k", "l", "m",
            "n", "o", "p", "q", "r", "s", "t", "u", "v", "w", "x", "y", "z" >>

\* line.lower()
lower(line) ==
    [ i \in 1..Len(line) |->
        IF \E u \in 1..Len(Upper) : Upper[u] = line[i].ch
        THEN [ch |-> Lower[CHOOSE u \in 1..Len(Upper) : Upper[u] = line[i].ch], n |-> line[i].n]
        ELSE line[i] ]

\* word in line: the characters of word, one after the other, somewhere in
\* line.  No word looked for holds the filler character.
in(word, line) ==
    \E i \in 0..(Len(line) - Len(word)) :
        \A j \in 1..Len(word) : line[i + j].n = 1 /\ line[i + j].ch = word[j]

error == <<"e", "r", "r", "o", "r">>

exception == <<"e", "x", "c", "e", "p", "t", "i", "o", "n">>

warning == <<"w", "a", "r", "n", "i", "n", "g">>

\* The longest line analyze_logs keeps.
MaxLineChars == 300

RECURSIVE SliceStr(_, _)
\* line[:k] for k >= 0
SliceStr(line, k) ==
    IF line = <<>> \/ k <= 0 THEN <<>>
    ELSE IF Head(line).n <= k THEN <<Head(line)>> \o SliceStr(Tail(line), k - Head(line).n)
    ELSE <<[ch |-> Head(line).ch, n |-> k]>>

\* list[:k]: a list cut at k, where k is an int or None; a negative k counts
\* from the end.  Any other k raises TypeError.
SliceList(list, k) ==
    IF k.t = "NoneType" THEN Return(list)
    ELSE IF k.t # "int"
    THEN Raise("TypeError", "slice indices must be integers or None or have an __index__ method", <<>>)
    ELSE LET stop == IF k.v >= 0 THEN k.v ELSE Len(list) + k.v
         IN Return(SubSeq(list, 1, IF stop > Len(list) THEN Len(list) ELSE stop))

\* [line[:300] for line in lines]
CutLines(lines) == [ i \in 1..Len(lines) |-> SliceStr(lines[i], MaxLineChars) ]

\* Whether analyze_logs files a line as an error, and as a warning.
IsErrorLine(line) == in(error, lower(line)) \/ in(exception, lower(line))

\* The mutant of IsWarningLine that files every line holding "warning".
IsWarningLineAlso(line) == in(warning, lower(line))

IsWarningLine(line) == ~IsErrorLine(line) /\ in(warning, lower(line))

\* The lists errors and warnings when the loop over the lines ends.
ErrorLines(lines) == CutLines(SelectSeq(lines, IsErrorLine))

WarningLines(lines) == CutLines(SelectSeq(lines, IsWarningLine))

\* LogAnalysis(...) of the two lists and of what the two slices gave.
AnalysisOf(errors, warnings, critical_errors, cut_warnings) ==
    IF ~critical_errors.ok THEN critical_errors
    ELSE IF ~cut_warnings.ok THEN cut_warnings
    ELSE Return(LogAnalysis(Len(errors), Len(warnings), critical_errors.v, cut_warnings.v))

\* The mutant of Analysis that cuts at max_lines + 1.
AnalysisOffByOne(errors, warnings, max_lines) ==
    AnalysisOf(errors, warnings, SliceList(errors, PyInt(max_lines.v + 1)),
               SliceList(warnings, PyInt(max_lines.v + 1)))

\* The return statement of analyze_logs.
Analysis(errors, warnings, max_lines) ==
    AnalysisOf(errors, warnings, SliceList(errors, max_lines), SliceList(warnings, max_lines))

\* The body of analyze_logs after splitlines().
Classified(lines, max_lines) == Analysis(ErrorLines(lines), WarningLines(lines), max_lines)

\* analyze_logs(log_content, max_lines): the LogAnalysis, or the exception.
analyze_logs(log_content, max_lines) ==
    IF log_content.t # "text"
    THEN Raise("AttributeError", "object has no attribute 'splitlines'", <<>>)
    ELSE Classified(splitlines(log_content.v), max_lines)

(***************************************************************************)
(* server.py: the Tool Gateway                                             *)
(***************************************************************************)
\* The longest log text scan_build_logs takes, and its default max_lines.
MaxLogChars == 1000000

DefaultMaxLines == 50

\* TextContent(type="text", text=text)
TextContent(text) == [type |-> "text", text |-> text]

\* data.model_dump_json(indent=2): the record as JSON text
model_dump_json(data) == [json |-> data, indent |-> 2]

\* An f-string of an except clause: a literal prefix, then str(e).
ErrorText(prefix, e) == [prefix |-> prefix, msg |-> e.msg]

\* One call made while answering a request: the function, its argument and
\* what it returned or raised.
Called(fn, arg, ret) == [fn |-> fn, arg |-> arg, ret |-> ret]

\* What a branch of call_tool comes to: `out` is what it returns or
\* raises inside the try block, `log` the calls it made.
Outcome(out, calls) == [out |-> out, log |-> calls]

\* The argument that names the path, and the extractor, of a path-taking tool.
PathKey(name) == IF name = "check_security_constants" THEN "config_path" ELSE "xml_path"

ExtractorOf(name) ==
    CASE name = "get_test_results" -> "parse_junit_xml"
      [] name = "get_coverage_report" -> "parse_cobertura_xml"
      [] name = "check_security_constants" -> "read_security_config"

Extract(name, path) ==
    CASE name = "get_test_results" -> parse_junit_xml(path)
      [] name = "get_coverage_report" -> parse_cobertura_xml(path)
      [] name = "check_security_constants" -> read_security_config(path)

\* arguments.get(key, default): arguments must be a dict to have a get.
ArgGet(arguments, key, default) ==
    IF arguments.t = "dict" THEN Return(get(arguments.v, key, default))
    ELSE Raise("AttributeError", "object has no attribute 'get'", <<>>)

\* The response of a branch whose extractor gave data.
Dumped(data, calls) ==
    IF ~data.ok THEN Outcome(data, calls)
    ELSE Outcome(Return(<<TextContent(model_dump_json(data.v))>>), calls)

\* The call of the extractor, and the response.
Extracted(name, path, data, calls) ==
    Dumped(data, Append(calls, Called(ExtractorOf(name), path, data)))

\* The mutant of Guarded that runs the extractor before it looks at what
\* the Path Guard said.
GuardedExtractFirst(name, path, safe) ==
    IF ~safe.ok THEN Outcome(safe, <<Called("is_path_safe", path, safe)>>)
    ELSE IF ~Extract(name, path.v).ok \/ safe.v
    THEN Extracted(name, path, Extract(name, path.v), <<Called("is_path_safe", path, safe)>>)
    ELSE Outcome(Raise("PermissionError",
                       "Access denied: {} is outside allowed directories", path.v),
                 << Called("is_path_safe", path, safe),
                    Called(ExtractorOf(name), path, Extract(name, path.v)) >>)

\* A path-taking branch from the Path Guard's answer on: permission denied
\* for a path it turned down, the extractor for one it let through.
Guarded(name, path, safe) ==
    IF ~safe.ok THEN Outcome(safe, <<Called("is_path_safe", path, safe)>>)
    ELSE IF ~safe.v
    THEN Outcome(Raise("PermissionError",
                       "Access denied: {} is outside allowed directories", path.v),
                 <<Called("is_path_safe", path, safe)>>)
    ELSE Extracted(name, path, Extract(name, path.v), <<Called("is_path_safe", path, safe)>>)

\* A path-taking branch from arguments.get(...) on: invalid input for an
\* argument that is missing or falsy, then the Path Guard.
Required(name, path) ==
    IF ~path.ok THEN Outcome(path, <<>>)
    ELSE IF ~Truthy(path.v)
    THEN Outcome(Raise("ValueError", PathKey(name) \o " is required", <<>>), <<>>)
    ELSE Guarded(name, path.v, is_path_safe(path.v))

\* The branches of get_test_results, get_coverage_report and
\* check_security_constants.
PathBranch(name, arguments) == Required(name, ArgGet(arguments, PathKey(name), None))

\* len(x) of an argument value
PyLen(x) ==
    IF x.t = "text" THEN Return(len(x.v))
    ELSE IF x.t = "str" \/ x.t = "dict" THEN Return(Len(x.v))
    ELSE Raise("TypeError", "object of type has no len()", <<>>)

\* The response of scan_build_logs to what analyze_logs gave.
Scanned(log_text, data) == Dumped(data, <<Called("analyze_logs", log_text, data)>>)

\* The scan_build_logs branch from len(log_text) on: invalid input for a
\* text over the limit, else max_lines and the log analyzer.
Sized(arguments, log_text, size) ==
    IF ~size.ok THEN Outcome(size, <<>>)
    ELSE IF size.v > MaxLogChars
    THEN Outcome(Raise("ValueError", "Log text exceeds maximum size of 1MB", <<>>), <<>>)
    ELSE Scanned(log_text,
                 analyze_logs(log_text, get(arguments.v, "max_lines", PyInt(DefaultMaxLines))))

\* The scan_build_logs branch from arguments.get("log_text") on.
Given(arguments, log_text) ==
    IF ~log_text.ok THEN Outcome(log_text, <<>>)
    ELSE IF ~Truthy(log_text.v)
    THEN Outcome(Raise("ValueError", "log_text is required", <<>>), <<>>)
    ELSE Sized(arguments, log_text.v, PyLen(log_text.v))

\* The branch of scan_build_logs.
ScanBranch(arguments) == Given(arguments, ArgGet(arguments, "log_text", None))

PathTools == {"get_test_results", "get_coverage_report", "check_security_constants"}

\* The try block of call_tool.
TryBlock(name, arguments) ==
    IF name \in PathTools THEN PathBranch(name, arguments)
    ELSE IF name = "scan_build_logs" THEN ScanBranch(arguments)
    ELSE Outcome(Raise("ValueError", "Unknown tool: " \o name, <<>>), <<>>)

\* The mutant of Handlers without the last except clause.
HandlersNoCatchAll(name, out) ==
    IF out.ok THEN out
    ELSE IF IsInstance(out.exc.cls, "FileNotFoundError")
    THEN Return(<<TextContent(ErrorText("Error: File not found - ", out.exc))>>)
    ELSE IF IsInstance(out.exc.cls, "PermissionError")
    THEN Return(<<TextContent(ErrorText("Error: Permission denied - ", out.exc))>>)
    ELSE IF IsInstance(out.exc.cls, "ValueError")
    THEN Return(<<TextContent(ErrorText("Error: Invalid input - ", out.exc))>>)
    ELSE out

\* The mutant of Handlers that reports every failure as invalid input.
HandlersAllInvalid(name, out) ==
    IF out.ok THEN out
    ELSE Return(<<TextContent(ErrorText("Error: Invalid input - ", out.exc))>>)

\* The except clauses of call_tool, tried in order on what the try block
\* raised; an exception none of them takes leaves call_tool.
Handlers(name, out) ==
    IF out.ok THEN out
    ELSE IF IsInstance(out.exc.cls, "FileNotFoundError")
    THEN Return(<<TextContent(ErrorText("Error: File not found - ", out.exc))>>)
    ELSE IF IsInstance(out.exc.cls, "PermissionError")
    THEN Return(<<TextContent(ErrorText("Error: Permission denied - ", out.exc))>>)
    ELSE IF IsInstance(out.exc.cls, "ValueError")
    THEN Return(<<TextContent(ErrorText("Error: Invalid input - ", out.exc))>>)
    ELSE IF IsInstance(out.exc.cls, "Exception")
    THEN Return(<<TextContent(ErrorText("Error processing " \o name \o ": ", out.exc))>>)
    ELSE out

\* The mutant of Returned that answers a repeated tool name with the
\* response it gave last.
ReturnedCached(name, r) ==
    IF pc = "answered" /\ req.name = name
    THEN [resp |-> resp, log |-> <<>>, bases |-> ALLOWED_BASE_PATHS]
    ELSE [resp |-> Handlers(name, r.out), log |-> r.log, bases |-> ALLOWED_BASE_PATHS]

\* call_tool from the end of its try block on: what it returns or raises,
\* the calls it made, and the allow list it leaves behind (it assigns
\* nothing to it).
Returned(name, r) ==
    [resp |-> Handlers(name, r.out), log |-> r.log, bases |-> ALLOWED_BASE_PATHS]

\* call_tool(name, arguments)
call_tool(name, arguments) == Returned(name, TryBlock(name, arguments))

(***************************************************************************)
(* The requests and the files of the gateway's state machine               *)
(***************************************************************************)
\* The test cases, suites and documents the files hold.
Attr(k, v) == [k |-> k, v |-> v]

PassedCase == Element("testcase", <<Attr("classname", <<"K">>), Attr("name", <<"a">>)>>, <<>>)

FailedCase ==
    Element("testcase", <<Attr("classname", <<"K">>), Attr("name", <<"b">>)>>,
            <<Element("failure", <<>>, <<>>)>>)

ErrorCase == Element("testcase", <<>>, <<Element("system-out", <<>>, <<>>), Element("error", <<>>, <<>>)>>)

SuiteFive ==
    Element("testsuite",
            << Attr("tests", <<"5">>), Attr("failures", <<"1">>), Attr("errors", <<"0">>),
               Attr("skipped", <<"2">>), Attr("time", <<"1", ".", "5">>) >>,
            <<PassedCase, FailedCase>>)

SuiteThree ==
    Element("testsuite", <<Attr("tests", <<"3">>), Attr("failures", <<"0">>)>>, <<PassedCase>>)

Coverage == Element("coverage", <<Attr("line-rate", <<"0", ".", "8", "2">>)>>, <<>>)

ConfigText ==
    face_detection_threshold \o <<" ", "=", " ", "0", ".", "6", "\n">>
      \o liveness_min_valid_frames \o <<"=", "3">>

\* The paths of the files, as the operating system names them.
TestReportPath == <<"/", "w", "/", "t">>

CoveragePath == <<"/", "w", "/", "a", "r", "t", "/", "c">>

ConfigPath == <<"/", "h", "/", "s">>

SiblingPath == <<"/", "h", "2", "/", "s">>

OutsidePath == <<"/", "e", "/", "p">>

\* The files a write may change, and what it may leave there.
WritablePaths == {TestReportPath}

Contents ==
    { NoFile, File(Element("testsuites", <<>>, <<SuiteFive, SuiteThree>>), <<"x">>),
      File(NotXml, ConfigText) }

InitialFs ==
    (TestReportPath :> File(SuiteFive, <<"x">>)) @@ (CoveragePath :> File(Coverage, <<"x">>))
      @@ (ConfigPath :> File(NotXml, ConfigText)) @@ (SiblingPath :> File(NotXml, ConfigText))
      @@ (OutsidePath :> File(SuiteThree, ConfigText)) @@ (getcwd :> Directory)

\* The values a caller may give for a path argument.
PathArgs ==
    { None, PyStr(<<>>), PyInt(7),
      PyStr(TestReportPath), PyStr(CoveragePath), PyStr(ConfigPath), PyStr(getcwd),
      PyStr(SiblingPath), PyStr(OutsidePath),
      PyStr(<<"/", "e", "/", "q">>),                              \* outside, no such file
      PyStr(<<"t">>),                                             \* relative: /w/t
      PyStr(<<"/", "w", "/", "n">>),                              \* no such file
      PyStr(<<"/", "w", "/", ".", ".", "/", "e", "/", "p">>),     \* /w/../e/p
      PyStr(<<".", ".", "/", "e", "/", "p">>),                    \* ../e/p
      PyStr(<<"/", "w", "/", "l", "/", "p">>),                    \* through the link /w/l
      PyStr(<<"/", "e", "/", ".", ".", "/", "h", "/", "s">>),     \* /e/../h/s
      PyStr(<<"/", "w", "NUL">>) }

\* The values a caller may give for log_text and max_lines.
SmallLog ==
    << Ch("E"), Ch("R"), Ch("R"), Ch("O"), Ch("R"), Ch("\n"),
       Ch("w"), Ch("a"), Ch("r"), Ch("n"), Ch("i"), Ch("n"), Ch("g"), Ch("\n"), Ch("o"), Ch("k") >>

LogArgs ==
    { None, PyText(<<>>), PyText(SmallLog), PyInt(7),
      PyText(<<Fill(MaxLogChars)>>),
      PyText(<<Ch("e"), Ch("r"), Ch("r"), Ch("o"), Ch("r"), Fill(MaxLogChars - 5)>>),
      PyText(<<Ch("e"), Ch("r"), Ch("r"), Ch("o"), Ch("r"), Fill(MaxLogChars - 4)>>) }

MaxLinesArgs == { PyInt(1), PyInt(0), PyInt(-1), None, PyStr(<<"1">>) }

\* The arguments of a request: no dict at all, or a dict of the items given.
ArgumentSets ==
    { None, PyDict(<<>>) }
      \cup { PyDict(<<Attr(k, v)>>) : k \in {"xml_path", "config_path"}, v \in PathArgs }
      \cup { PyDict(<<Attr("log_text", v)>>) : v \in LogArgs }
      \cup { PyDict(<<Attr("log_text", v), Attr("max_lines", m)>>) : v \in LogArgs, m \in MaxLinesArgs }

ToolNames == PathTools \cup {"scan_build_logs", "deploy"}

\* The arguments tried with a tool: its own, and those with nothing for it.
ArgumentsFor(name) ==
    { a \in ArgumentSets :
        \/ a.t # "dict" \/ a.v = <<>>
        \/ name \in PathTools /\ a.v[1].k = PathKey(name)
        \/ name = "scan_build_logs" /\ a.v[1].k = "log_text"
        \/ name = "deploy" /\ a.v = <<Attr("xml_path", PyStr(TestReportPath))>>
        \/ name = "get_test_results" /\ a.v = <<Attr("config_path", PyStr(ConfigPath))>> }

NoRequest == [name |-> "", arguments |-> None]

(***************************************************************************)
(* The gateway's state machine                                             *)
(***************************************************************************)
\* probe before a request is kept in it.  mixed says that a request other
\* than the one kept was answered since.
NoProbe == [req |-> NoRequest, resp |-> Return(<<>>), mixed |-> FALSE]

InitBases == <<getcwd, join(getcwd, artifacts), expanduser>>

Init ==
    /\ ALLOWED_BASE_PATHS = InitBases
    /\ fs = InitialFs
    /\ req = NoRequest
    /\ resp = Return(<<>>)
    /\ log = <<>>
    /\ probe = NoProbe
    /\ input = None
    /\ output = Return(None)
    /\ pc = "idle"

\* The gateway answers one request: r is call_tool from its call to its
\* return.
Answer(name, arguments, r) ==
    /\ req' = [name |-> name, arguments |-> arguments]
    /\ resp' = r.resp
    /\ log' = r.log
    /\ ALLOWED_BASE_PATHS' = r.bases
    /\ pc' = "answered"
    /\ UNCHANGED <<fs, input, output>>

CallTool(name, arguments) ==
    Answer(name, arguments, call_tool(name, arguments)) /\ UNCHANGED probe

\* The pipeline outside the server writes, replaces or removes an artifact.
WriteFile(path, content) ==
    /\ fs[path] # content
    /\ fs' = [fs EXCEPT ![path] = content]
    /\ probe' = NoProbe
    /\ pc' = "idle"
    /\ UNCHANGED <<ALLOWED_BASE_PATHS, req, resp, log, input, output>>

Next ==
    \/ \E name \in ToolNames : \E arguments \in ArgumentsFor(name) : CallTool(name, arguments)
    \/ \E path \in WritablePaths : \E content \in Contents : WriteFile(path, content)

Spec == Init /\ [][Next]_vars

(***************************************************************************)
(* The gateway watched: the first request answered since the files last    *)
(* changed is kept in probe with its response, for the later ones to be    *)
(* compared with.                                                          *)
(***************************************************************************)
RepeatRequests ==
    { [name |-> "get_test_results", arguments |-> a] :
        a \in { None, PyDict(<<>>), PyDict(<<Attr("xml_path", PyStr(TestReportPath))>>),
                PyDict(<<Attr("xml_path", PyStr(OutsidePath))>>),
                PyDict(<<Attr("xml_path", PyStr(SiblingPath))>>),
                PyDict(<<Attr("xml_path", PyStr(<<"/", "w", "/", "n">>))>>) } }
      \cup { [name |-> "get_coverage_report", arguments |-> a] :
        a \in { PyDict(<<Attr("xml_path", PyStr(CoveragePath))>>),
                PyDict(<<Attr("xml_path", PyStr(TestReportPath))>>) } }
      \cup { [name |-> "check_security_constants", arguments |-> a] :
        a \in { PyDict(<<Attr("config_path", PyStr(ConfigPath))>>),
                PyDict(<<Attr("config_path", PyStr(TestReportPath))>>),
                PyDict(<<Attr("config_path", PyInt(7))>>) } }
      \cup { [name |-> "scan_build_logs", arguments |-> a] :
        a \in { PyDict(<<Attr("log_text", PyText(SmallLog))>>),
                PyDict(<<Attr("log_text", PyText(SmallLog)), Attr("max_lines", PyInt(1))>>),
                PyDict(<<Attr("log_text", PyText(<<>>))>>) } }
      \cup { [name |-> "deploy", arguments |-> PyDict(<<>>)] }

CallToolWatched(name, arguments) ==
    /\ Answer(name, arguments, call_tool(name, arguments))
    /\ probe' = IF probe.req = NoRequest
                THEN [req |-> req', resp |-> resp', mixed |-> FALSE]
                ELSE [probe EXCEPT !.mixed = probe.mixed \/ req' # probe.req]

NextRepeat ==
    \/ \E r \in RepeatRequests : CallToolWatched(r.name, r.arguments)
    \/ \E path \in WritablePaths : \E content \in Contents : WriteFile(path, content)

SpecRepeat == Init /\ [][NextRepeat]_vars

(***************************************************************************)
(* analyze_logs on its own                                                 *)
(***************************************************************************)
\* The most lines a log text has here, and the largest max_lines either way.
MaxLogLines == 3

MaxLinesArg == 2

\* The lines the log texts are made of.  Each comes with the class the
\* specification gives it and with the line as it is to be kept, cut to
\* MaxLineChars characters.
Line(runs, class, kept) == [runs |-> runs, class |-> class, kept |-> kept]

LogLines ==
    { Line(<<Ch("E"), Ch("R"), Ch("R"), Ch("O"), Ch("R")>>, "error",
           <<Ch("E"), Ch("R"), Ch("R"), Ch("O"), Ch("R")>>),
      Line(<<Ch("W"), Ch("a"), Ch("r"), Ch("n"), Ch("i"), Ch("n"), Ch("g")>>, "warning",
           <<Ch("W"), Ch("a"), Ch("r"), Ch("n"), Ch("i"), Ch("n"), Ch("g")>>),
      Line(<<Ch("w"), Ch("a"), Ch("r"), Ch("n"), Ch("i"), Ch("n"), Ch("g"), Ch(" "),
             Ch("E"), Ch("r"), Ch("r"), Ch("o"), Ch("r")>>, "error",
           <<Ch("w"), Ch("a"), Ch("r"), Ch("n"), Ch("i"), Ch("n"), Ch("g"), Ch(" "),
             Ch("E"), Ch("r"), Ch("r"), Ch("o"), Ch("r")>>),
      Line(<<Ch("o"), Ch("k")>>, "none", <<Ch("o"), Ch("k")>>),
      Line(<<>>, "none", <<>>),
      Line(<<Fill(MaxLineChars - 2), Ch("e"), Ch("X"), Ch("c"), Ch("e"), Ch("p"), Ch("t"),
             Ch("i"), Ch("o"), Ch("n")>>, "error",
           <<Fill(MaxLineChars - 2), Ch("e"), Ch("X")>>),
      Line(<<Ch("w"), Ch("a"), Ch("r"), Ch("n"), Ch("i"), Ch("n"), Ch("g"), Fill(MaxLineChars)>>,
           "warning",
           <<Ch("w"), Ch("a"), Ch("r"), Ch("n"), Ch("i"), Ch("n"), Ch("g"), Fill(MaxLineChars - 7)>>) }

LineSeqs == UNION { [1..n -> LogLines] : n \in 0..MaxLogLines }

RECURSIVE JoinLines(_)
\* "\n".join(lines)
JoinLines(lines) ==
    IF lines = <<>> THEN <<>>
    ELSE IF Len(lines) = 1 THEN lines[1].runs
    ELSE lines[1].runs \o <<Ch("\n")>> \o JoinLines(Tail(lines))

LogInputs ==
    { [lines |-> l, log_content |-> PyText(JoinLines(l)), max_lines |-> PyInt(m)] :
        l \in LineSeqs, m \in (0 - MaxLinesArg)..MaxLinesArg }

InitLogs ==
    /\ ALLOWED_BASE_PATHS = InitBases
    /\ fs = InitialFs
    /\ req = NoRequest
    /\ resp = Return(<<>>)
    /\ log = <<>>
    /\ probe = NoProbe
    /\ input \in LogInputs
    /\ output = Return(None)
    /\ pc = "ready"

AnalyzeLogs ==
    /\ pc = "ready"
    /\ output' = analyze_logs(input.log_content, input.max_lines)
    /\ pc' = "done"
    /\ UNCHANGED <<ALLOWED_BASE_PATHS, fs, req, resp, log, probe, input>>

NextLogs == AnalyzeLogs

SpecLogs == InitLogs /\ [][NextLogs]_vars

(***************************************************************************)
(* parse_junit_xml on its own                                              *)
(***************************************************************************)
\* The most suites a testsuites wrapper holds here.
MaxSuites == 2

NamedErrorCase ==
    Element("testcase", <<Attr("name", <<"c">>), Attr("classname", <<"L">>)>>,
            <<Element("error", <<>>, <<>>)>>)

BothCase ==
    Element("testcase", <<Attr("classname", <<"L">>), Attr("name", <<"d">>)>>,
            <<Element("failure", <<>>, <<>>), Element("error", <<>>, <<>>)>>)

SkippedCase ==
    Element("testcase", <<Attr("classname", <<"L">>), Attr("name", <<"e">>)>>,
            <<Element("skipped", <<>>, <<>>)>>)

SuiteBare ==
    Element("testsuite", <<>>,
            <<ErrorCase, Element("testsuite", <<Attr("tests", <<"9">>)>>, <<FailedCase>>)>>)

SuiteBlank ==
    Element("testsuite", <<Attr("tests", <<" ", "7">>), Attr("errors", <<"1">>)>>,
            <<Element("properties", <<>>, <<>>), NamedErrorCase>>)

SuiteFour ==
    Element("testsuite",
            << Attr("tests", <<"4">>), Attr("failures", <<"2">>), Attr("errors", <<"1">>),
               Attr("skipped", <<"1">>), Attr("time", <<"2">>) >>,
            <<BothCase, PassedCase, NamedErrorCase, SkippedCase, FailedCase>>)

SuiteBadTests ==
    Element("testsuite", <<Attr("tests", <<"x">>), Attr("failures", <<"1">>)>>, <<FailedCase>>)

SuiteBadSkipped ==
    Element("testsuite", <<Attr("tests", <<"2">>), Attr("skipped", <<>>), Attr("time", <<"0", ".", "5">>)>>,
            <<PassedCase>>)

SuiteBadTime ==
    Element("testsuite", <<Attr("tests", <<"1">>), Attr("time", <<"a">>)>>, <<PassedCase>>)

\* What the specification reads from each suite: its four counts (0 for an
\* attribute that is absent, and also for one that is no integer), its
\* time in hundredths (0 when absent), the names of its failed test cases,
\* the counts that are no integer, and whether its time is a number.
Reads(elem, counts, time, names, unparsable, timed) ==
    [ elem |-> elem, counts |-> counts, time |-> time, names |-> names,
      unparsable |-> unparsable, timed |-> timed ]

SuiteTable ==
    { Reads(SuiteFive, <<5, 1, 0, 2>>, 150, << <<"K", ":", ":", "b">> >>, {}, TRUE),
      Reads(SuiteThree, <<3, 0, 0, 0>>, 0, <<>>, {}, TRUE),
      Reads(SuiteBare, <<0, 0, 0, 0>>, 0, << <<":", ":", "u", "n", "k", "n", "o", "w", "n">> >>, {}, TRUE),
      Reads(SuiteBlank, <<7, 0, 1, 0>>, 0, << <<"L", ":", ":", "c">> >>, {}, TRUE),
      Reads(SuiteFour, <<4, 2, 1, 1>>, 200,
            << <<"L", ":", ":", "d">>, <<"L", ":", ":", "c">>, <<"K", ":", ":", "b">> >>, {}, TRUE),
      Reads(SuiteBadTests, <<0, 1, 0, 0>>, 0, << <<"K", ":", ":", "b">> >>, {"tests"}, TRUE),
      Reads(SuiteBadSkipped, <<2, 0, 0, 0>>, 50, <<>>, {"skipped"}, TRUE),
      Reads(SuiteBadTime, <<1, 0, 0, 0>>, 0, <<>>, {}, FALSE) }

\* The children of a wrapper: suites, and an element that is no suite.
WrapperChildren == { r.elem : r \in SuiteTable } \cup { Element("properties", <<>>, <<>>) }

JunitRoots ==
    { r.elem : r \in SuiteTable }
      \cup { Element("testsuites", <<>>, c) :
               c \in UNION { [1..n -> WrapperChildren] : n \in 0..MaxSuites } }
      \cup { Element("report", <<Attr("tests", <<"5">>)>>, <<SuiteFive>>) }

JunitFiles == { File(root, <<"x">>) : root \in JunitRoots } \cup { File(NotXml, <<"x">>), NoFile, Directory }

InitJunit ==
    /\ ALLOWED_BASE_PATHS = InitBases
    /\ \E f \in JunitFiles : fs = (TestReportPath :> f)
    /\ req = NoRequest
    /\ resp = Return(<<>>)
    /\ log = <<>>
    /\ probe = NoProbe
    /\ input = TestReportPath
    /\ output = Return(None)
    /\ pc = "ready"

ParseJunit ==
    /\ pc = "ready"
    /\ output' = parse_junit_xml(input)
    /\ pc' = "done"
    /\ UNCHANGED <<ALLOWED_BASE_PATHS, fs, req, resp, log, probe, input>>

NextJunit == ParseJunit

SpecJunit == InitJunit /\ [][NextJunit]_vars

(***************************************************************************)
(* read_security_config on its own                                         *)
(***************************************************************************)
\* The most lines a configuration text is put together from here.
MaxConfigLines == 2

\* What stands where a field's pattern matches something that is no number.
NoNumber == [t |-> "no number"]

\* The lines the configuration texts are made of.  Each comes with what the
\* specification reads from it for the two fields: the number of the match
\* of the field's pattern in the line, None when the pattern does not match,
\* NoNumber when what it matches is no number.
ConfigLine(chars, face, live) == [chars |-> chars, face |-> face, live |-> live]

ConfigLines ==
    { ConfigLine(face_detection_threshold \o <<" ", "=", " ", "0", ".", "6">>, PyFloat(60), None),
      ConfigLine(liveness_min_valid_frames \o <<"=", "3">>, None, PyInt(3)),
      ConfigLine(face_detection_threshold \o <<" ", "=", " ", "1", ".", "2", ".", "3">>,
                 NoNumber, None),
      ConfigLine(face_detection_threshold \o <<"=", ".">>, NoNumber, None),
      ConfigLine(face_detection_threshold
                   \o <<" ", "=", " ", "0", ".", "7", "5", " ", "#", " ", "=", " ", "0", ".", "5">>,
                 PyFloat(50), None),
      ConfigLine(<<"x", " ", "=", " ", "5">>, None, None),
      ConfigLine(liveness_min_valid_frames \o <<" ", "=", " ", "1", "2", " ">>
                   \o face_detection_threshold \o <<"=", "2">>,
                 PyFloat(200), PyInt(2)),
      ConfigLine(face_detection_threshold \o <<" ", "=", " ", "x">>, None, None),
      ConfigLine(liveness_min_valid_frames \o <<" ", "=", " ", "4", ".", "5">>, None, PyInt(4)) }

ConfigLineSeqs == UNION { [1..n -> ConfigLines] : n \in 0..MaxConfigLines }

RECURSIVE JoinConfig(_)
\* "\n".join(lines)
JoinConfig(lines) ==
    IF lines = <<>> THEN <<>>
    ELSE IF Len(lines) = 1 THEN lines[1].chars
    ELSE lines[1].chars \o <<"\n">> \o JoinConfig(Tail(lines))

RECURSIVE FirstRead(_, _)
\* What the first of the lines that has something for the field has for it.
FirstRead(lines, field) ==
    IF lines = <<>> THEN None
    ELSE IF lines[1][field] # None THEN lines[1][field]
    ELSE FirstRead(Tail(lines), field)

\* A text whose assignments have their values on a line after the "=".
SpreadConfig ==
    face_detection_threshold \o <<" ", "=", "\n", "0", ".", "5", "\n">>
      \o liveness_min_valid_frames \o <<" ", "=", "\n", "\n", "8">>

\* What read_security_config is given: the path, what is there, and what the
\* specification reads from it for the two fields.
ConfigInput(file, face, live) ==
    [config_path |-> ConfigPath, file |-> file, face |-> face, live |-> live]

ConfigInputs ==
    { ConfigInput(File(NotXml, JoinConfig(l)), FirstRead(l, "face"), FirstRead(l, "live")) :
        l \in ConfigLineSeqs }
      \cup { ConfigInput(File(NotXml, SpreadConfig), PyFloat(50), PyInt(8)),
             ConfigInput(NoFile, None, None),
             ConfigInput(Directory, None, None),
             ConfigInput(File(NotXml, Undecodable), None, None) }

InitConfig ==
    /\ ALLOWED_BASE_PATHS = InitBases
    /\ input \in ConfigInputs
    /\ fs = (ConfigPath :> input.file)
    /\ req = NoRequest
    /\ resp = Return(<<>>)
    /\ log = <<>>
    /\ probe = NoProbe
    /\ output = Return(None)
    /\ pc = "ready"

ReadConfig ==
    /\ pc = "ready"
    /\ output' = read_security_config(input.config_path)
    /\ pc' = "done"
    /\ UNCHANGED <<ALLOWED_BASE_PATHS, fs, req, resp, log, probe, input>>

NextConfig == ReadConfig

SpecConfig == InitConfig /\ [][NextConfig]_vars

(***************************************************************************)
(* What the responses are                                                  *)
(***************************************************************************)
Answered == pc = "answered"

\* call_tool returned one text block.
OneBlock(r) == r.ok /\ Len(r.v) = 1 /\ r.v[1].type = "text"

\* The block is a serialized record, and it is an error text.
IsRecord(r) == OneBlock(r) /\ DOMAIN r.v[1].text = {"json", "indent"}

IsError(r) == OneBlock(r) /\ DOMAIN r.v[1].text = {"prefix", "msg"}

ErrorWith(r, prefix) == IsError(r) /\ r.v[1].text.prefix = prefix

InvalidInput(r) == ErrorWith(r, "Error: Invalid input - ")

PermissionDenied(r) == ErrorWith(r, "Error: Permission denied - ")

FileNotFound(r) == ErrorWith(r, "Error: File not found - ")

\* The argument of the request with that key, None when there is none.
Arg(key) == IF req.arguments.t = "dict" THEN get(req.arguments.v, key, None) ELSE None

\* C1: whatever the tool name and the arguments, and whatever an extractor
\* raises, call_tool returns exactly one text block, a serialized record or
\* an error text, and raises nothing.
C1_OneTextBlock == Answered => (IsRecord(resp) \/ IsError(resp))

\* C1's case: arguments that are no dict, a path of the wrong type and an
\* extractor that raises have each been answered with an error text.
C1_Witness ==
    /\ Answered /\ IsError(resp)
    /\ \/ req.arguments = None
       \/ req.name = "get_test_results" /\ Arg("xml_path") = PyInt(7)
       \/ Len(log) = 2 /\ ~log[2].ret.ok

\* The canonical path p is an allow-listed base or lies beneath one.
Nested(p) ==
    \E i \in 1..Len(ALLOWED_BASE_PATHS) :
        LET base == resolve(ALLOWED_BASE_PATHS[i]).v
        IN p = base \/ startswith(p, base \o <<"/">>)

\* C2: the Path Guard accepts a path exactly when its canonical form is an
\* allow-listed base or lies beneath one.
C2_GuardIffNested ==
    \A i \in 1..Len(log) :
        (Answered /\ log[i].fn = "is_path_safe" /\ log[i].arg.t = "str" /\ resolve(log[i].arg.v).ok)
            => log[i].ret = Return(Nested(resolve(log[i].arg.v).v))

\* C3: a path-taking tool looks for its argument, then asks the Path Guard,
\* then runs the extractor.  A missing argument is answered invalid input
\* with no call made; a path the guard turns down is answered permission
\* denied with no extractor run, whether the file exists or not; an
\* extractor runs only on the path the guard let through.
C3_ArgumentGuardExtractor ==
    (Answered /\ req.name \in PathTools /\ req.arguments.t = "dict") =>
        /\ ~Truthy(Arg(PathKey(req.name))) => (InvalidInput(resp) /\ log = <<>>)
        /\ Truthy(Arg(PathKey(req.name))) =>
              /\ Len(log) >= 1
              /\ log[1] = Called("is_path_safe", Arg(PathKey(req.name)),
                                 is_path_safe(Arg(PathKey(req.name))))
        /\ (Len(log) >= 1 /\ log[1].ret = Return(FALSE)) =>
              (PermissionDenied(resp) /\ Len(log) = 1)
        /\ \A i \in 1..Len(log) :
              log[i].fn # "is_path_safe" =>
                  /\ i = 2 /\ log[i].fn = ExtractorOf(req.name)
                  /\ log[1].ret = Return(TRUE) /\ log[i].arg = log[1].arg

\* C3's case: the guard turned down a path where no file is, and the
\* answer is permission denied.
C3_Witness ==
    /\ Answered /\ req.name = "check_security_constants"
    /\ Len(log) = 1 /\ log[1].ret = Return(FALSE)
    /\ ~exists(log[1].arg.v)
    /\ PermissionDenied(resp)

\* The exception the try block raised for the request answered.
Raised == TryBlock(req.name, req.arguments).out.exc.cls

Classified3(cls) ==
    IsInstance(cls, "FileNotFoundError") \/ IsInstance(cls, "PermissionError")
      \/ IsInstance(cls, "ValueError")

\* C4 as the specification states it: every error text is
\* "Error: <category> - <message>" with one of the four categories.
C4_FourCategories ==
    (Answered /\ IsError(resp)) =>
        \E cat \in {"File not found", "Permission denied", "Invalid input", "generic"} :
            resp.v[1].text.prefix = "Error: " \o cat \o " - "

\* C4 amended: an error text is "Error: <category> - <message>" with the
\* category File not found, Permission denied or Invalid input for a
\* failure of that kind, and "Error processing <tool name>: <message>"
\* for every other failure.
C4_ErrorTextForms ==
    (Answered /\ ~TryBlock(req.name, req.arguments).out.ok) =>
        /\ IsError(resp)
        /\ resp.v[1].text.msg = TryBlock(req.name, req.arguments).out.exc.msg
        /\ IsInstance(Raised, "FileNotFoundError") => FileNotFound(resp)
        /\ IsInstance(Raised, "PermissionError") => PermissionDenied(resp)
        /\ IsInstance(Raised, "ValueError") => InvalidInput(resp)
        /\ ~Classified3(Raised) => ErrorWith(resp, "Error processing " \o req.name \o ": ")

\* C4's case: a failure of no classified kind has been answered.
C4_Witness ==
    /\ Answered /\ ~TryBlock(req.name, req.arguments).out.ok
    /\ ~Classified3(Raised)
    /\ IsError(resp)

\* C5: scan_build_logs with an integer max_lines (or none, for the default)
\* answers invalid input exactly when log_text is missing or longer than
\* MaxLogChars, and then runs no analyzer; every other log text, the empty
\* one included, is answered with the record analyze_logs gives for it.
C5_ScanLimits ==
    (/\ Answered /\ req.name = "scan_build_logs" /\ req.arguments.t = "dict"
     /\ Arg("log_text").t \in {"NoneType", "text"}
     /\ get(req.arguments.v, "max_lines", PyInt(DefaultMaxLines)).t = "int") =>
        IF Arg("log_text") = None \/ len(Arg("log_text").v) > MaxLogChars
        THEN InvalidInput(resp) /\ log = <<>>
        ELSE /\ IsRecord(resp)
             /\ resp.v[1].text.json =
                  analyze_logs(Arg("log_text"),
                               get(req.arguments.v, "max_lines", PyInt(DefaultMaxLines))).v
             /\ Arg("log_text").v = <<>> =>
                  resp.v[1].text.json = LogAnalysis(0, 0, <<>>, <<>>)

Done == pc = "done"

Min(a, b) == IF a <= b THEN a ELSE b

Max(a, b) == IF a >= b THEN a ELSE b

\* The lines of the input of one class, as they are to be kept, in order.
KeptOf(class) ==
    LET l == SelectSeq(input.lines, LAMBDA x : x.class = class)
    IN [ i \in 1..Len(l) |-> l[i].kept ]

\* s is the first n elements of t, for some n.
IsPrefix(s, t) == Len(s) <= Len(t) /\ \A i \in 1..Len(s) : s[i] = t[i]

\* C7 as the specification states it: whatever max_lines is, neither list
\* is longer than min(count, max_lines).
C7_LenAtMostMin ==
    Done =>
        /\ Len(output.v.critical_errors) <= Min(output.v.error_count, input.max_lines.v)
        /\ Len(output.v.warnings) <= Min(output.v.warning_count, input.max_lines.v)

\* C7 amended: for max_lines >= 0 neither list is longer than
\* min(count, max_lines); for max_lines < 0 each list holds all but the
\* last -max_lines lines of its class, so it is no longer than its count.
C7_LenBounds ==
    Done =>
        /\ output.ok
        /\ IF input.max_lines.v >= 0
           THEN /\ Len(output.v.critical_errors) <= Min(output.v.error_count, input.max_lines.v)
                /\ Len(output.v.warnings) <= Min(output.v.warning_count, input.max_lines.v)
           ELSE /\ Len(output.v.critical_errors) = Max(0, output.v.error_count + input.max_lines.v)
                /\ Len(output.v.warnings) = Max(0, output.v.warning_count + input.max_lines.v)

\* C7's case: more error lines than max_lines, and max_lines of them kept.
C7_Witness ==
    /\ Done /\ output.ok
    /\ input.max_lines.v >= 1
    /\ output.v.error_count > input.max_lines.v
    /\ Len(output.v.critical_errors) = input.max_lines.v

\* C8: a line holding "error" or "exception" in any case is an error line,
\* another line holding "warning" is a warning line; the counts are those
\* of all the lines of each class; each list holds lines of its class from
\* the first on, in order, each cut to MaxLineChars characters, and
\* min(count, max_lines) of them for max_lines >= 0.
C8_Classes ==
    Done =>
        /\ output.ok
        /\ output.v.error_count = Len(KeptOf("error"))
        /\ output.v.warning_count = Len(KeptOf("warning"))
        /\ IsPrefix(output.v.critical_errors, KeptOf("error"))
        /\ IsPrefix(output.v.warnings, KeptOf("warning"))
        /\ input.max_lines.v >= 0 =>
              /\ Len(output.v.critical_errors) = Min(input.max_lines.v, Len(KeptOf("error")))
              /\ Len(output.v.warnings) = Min(input.max_lines.v, Len(KeptOf("warning")))
        /\ \A i \in 1..Len(output.v.critical_errors) :
              len(output.v.critical_errors[i]) <= MaxLineChars
        /\ \A i \in 1..Len(output.v.warnings) : len(output.v.warnings[i]) <= MaxLineChars

\* C8's case: a line holding both words, a line longer than MaxLineChars
\* and a warning line were analyzed, with more error lines than max_lines.
C8_Witness ==
    /\ Done /\ output.ok
    /\ \E i \in 1..Len(input.lines) :
          in(warning, lower(input.lines[i].runs)) /\ in(error, lower(input.lines[i].runs))
    /\ \E i \in 1..Len(input.lines) : len(input.lines[i].runs) > MaxLineChars
    /\ input.max_lines.v = 1
    /\ output.v.error_count = 2 /\ output.v.warning_count = 1

(***************************************************************************)
(* What parse_junit_xml returns                                            *)
(***************************************************************************)
\* The file read is XML whose root is a testsuite or a testsuites wrapper.
IsReport ==
    /\ fs[input].kind = "file" /\ fs[input].root # NotXml
    /\ fs[input].root.tag \in {"testsuite", "testsuites"}

\* The suites of the report: the root, or the testsuite children of the
\* wrapper, each with what the specification reads from it.
ReportSuites ==
    LET root == fs[input].root
        suites == IF root.tag = "testsuites"
                  THEN SelectSeq(root.children, LAMBDA c : c.tag = "testsuite")
                  ELSE <<root>>
    IN [ i \in 1..Len(suites) |-> CHOOSE r \in SuiteTable : r.elem = suites[i] ]

RECURSIVE SumCounts(_, _)
SumCounts(reads, k) ==
    IF reads = <<>> THEN 0 ELSE Head(reads).counts[k] + SumCounts(Tail(reads), k)

RECURSIVE SumTimes(_)
SumTimes(reads) == IF reads = <<>> THEN 0 ELSE Head(reads).time + SumTimes(Tail(reads))

RECURSIVE AllNames(_)
AllNames(reads) == IF reads = <<>> THEN <<>> ELSE Head(reads).names \o AllNames(Tail(reads))

\* Every count of every suite of the report is absent or an integer, and
\* every time absent or a number.
AllParse ==
    \A i \in 1..Len(ReportSuites) : ReportSuites[i].unparsable = {} /\ ReportSuites[i].timed

\* C9: for a well-formed report, total, failures, errors and skipped are
\* the sums of the attributes over the suites processed, and
\* failed_test_names has one "<classname>::<name>" entry for each of their
\* test cases with a failure or error child, in document order.
C9_SumsAndNames ==
    (Done /\ IsReport /\ AllParse) =>
        /\ output.ok
        /\ output.v.total = SumCounts(ReportSuites, 1)
        /\ output.v.failures = SumCounts(ReportSuites, 2)
        /\ output.v.errors = SumCounts(ReportSuites, 3)
        /\ output.v.skipped = SumCounts(ReportSuites, 4)
        /\ output.v.failed_test_names = AllNames(ReportSuites)

\* C9's case: a wrapper of two suites, each with failed test cases.
C9_Witness ==
    /\ Done /\ IsReport /\ AllParse
    /\ fs[input].root.tag = "testsuites"
    /\ Len(ReportSuites) = 2
    /\ ReportSuites[1].names # <<>> /\ ReportSuites[2].names # <<>>
    /\ ReportSuites[1] # ReportSuites[2]
    /\ output.v.total = ReportSuites[1].counts[1] + ReportSuites[2].counts[1]

\* C10 as the specification states it: a count that is absent or no
\* integer adds 0, a time that is absent adds 0.0, and neither makes
\* parse_junit_xml fail.
C10_UnparsableIsZero ==
    (Done /\ IsReport /\ \A i \in 1..Len(ReportSuites) : ReportSuites[i].timed) =>
        /\ output.ok
        /\ output.v.total = SumCounts(ReportSuites, 1)
        /\ output.v.failures = SumCounts(ReportSuites, 2)
        /\ output.v.errors = SumCounts(ReportSuites, 3)
        /\ output.v.skipped = SumCounts(ReportSuites, 4)
        /\ output.v.time = PyFloat(SumTimes(ReportSuites))

\* C10 amended: a count that is absent adds 0 and a time that is absent
\* adds 0.0, and neither makes parse_junit_xml fail; a count that is
\* present and no integer, or a time that is present and no number, makes
\* it fail with ValueError.
C10_AbsentIsZero ==
    (Done /\ IsReport) =>
        /\ output.ok <=> AllParse
        /\ output.ok =>
              /\ output.v.total = SumCounts(ReportSuites, 1)
              /\ output.v.failures = SumCounts(ReportSuites, 2)
              /\ output.v.errors = SumCounts(ReportSuites, 3)
              /\ output.v.skipped = SumCounts(ReportSuites, 4)
              /\ output.v.time = PyFloat(SumTimes(ReportSuites))
        /\ ~output.ok => output.exc.cls = "ValueError"

\* C10's case: a suite with no attribute at all and a suite with some were
\* summed.
C10_Witness ==
    /\ Done /\ IsReport /\ output.ok
    /\ Len(ReportSuites) = 2
    /\ ReportSuites[1].elem.attrib = <<>>
    /\ \E i \in 1..Len(ReportSuites[2].elem.attrib) : ReportSuites[2].elem.attrib[i].k = "time"
    /\ output.v.time.c > 0 /\ output.v.total > 0

(***************************************************************************)
(* What read_security_config returns                                       *)
(***************************************************************************)
\* The configuration file is there and its bytes are UTF-8 text.
IsConfigText == input.file.kind = "file" /\ input.file.text # Undecodable

\* C11: read_security_config never fails on the content it reads: for a
\* path with no file it returns SecurityConfig(None, None); for every text
\* it returns a record whose face_threshold and liveness_min_frames are,
\* each on its own, the number of the first match of the field's pattern
\* or None when the pattern does not match; it fails only when reading the
\* file fails.
C11_NeverFailsOnContent ==
    Done =>
        /\ input.file = NoFile => output = Return(SecurityConfig(None, None))
        /\ IsConfigText =>
              /\ output.ok
              /\ output.v.face_threshold = input.face
              /\ output.v.liveness_min_frames = input.live
        /\ ~output.ok => ~IsConfigText

====
